---- MODULE Spec2Model ----
(***************************************************************************)
(* The client connection registry of pybullet (examples/pybullet/          *)
(* pybullet.c): the fixed table of physics clients, connect with its       *)
(* handshake, disconnect, the lazy eviction in getPhysicsClient and the    *)
(* per-connection operations that go through it.                           *)
(*                                                                         *)
(* Every Python-level entry point is one action: the interpreter calls it  *)
(* and it runs to its return.  What the outside world decides during a     *)
(* call (does the transport open, does b3CanSubmitCommand answer yes,      *)
(* which status comes back) is an input of the action.  The variable last  *)
(* records the most recent call: its arguments, what it returned or        *)
(* raised, and the sequence of transport-level events it performed.        *)
(***************************************************************************)
EXTENDS Integers, FiniteSets, Sequences, TLC

\* ---------------------------------------------------------------- bounds
\* The table size (1024 in pybullet.c), scaled down.
MAX_PHYSICS_CLIENTS == 2
\* How many transports are ever opened in one behaviour.
MaxHandles == 2

\* ------------------------------------------------------------- constants
eCONNECT_GUI == 1
eCONNECT_DIRECT == 2
eCONNECT_SHARED_MEMORY == 3
eCONNECT_GUI_SERVER == 7
\* A method value that no case of the switch accepts.
eCONNECT_UNKNOWN == 99

ConnectMethods ==
    {eCONNECT_GUI, eCONNECT_DIRECT, eCONNECT_SHARED_MEMORY, eCONNECT_GUI_SERVER,
     eCONNECT_UNKNOWN}

Slots == 0 .. (MAX_PHYSICS_CLIENTS - 1)
Handles == 1 .. MaxHandles
\* The ids a caller may pass: the table's indices and one on each side.
ClientIds == -1 .. MAX_PHYSICS_CLIENTS

VARIABLES
    sPhysicsClients1,    \* slot -> transport handle, 0 when free
    sPhysicsClientsGUI,  \* slot -> connection method, 0 when free
    sNumPhysicsClients,  \* the open-connection counter
    numOpened,           \* transports constructed so far: handles 1..numOpened
    disconnects,         \* handle -> number of b3DisconnectSharedMemory calls on it
    exited,              \* b3pybulletExitFunc has run
    last                 \* the most recent call

vars ==
    <<sPhysicsClients1, sPhysicsClientsGUI, sNumPhysicsClients, numOpened,
      disconnects, exited, last>>

\* ---------------------------------------------------------------- events
\* What a call does to transports and slots, in order.  h is the transport,
\* i the slot, m the method of the slot, ok the probe's answer, t the command
\* submitted or the status type received.
Ev(e, h, i, m, ok, t) == [e |-> e, h |-> h, i |-> i, m |-> m, ok |-> ok, t |-> t]
\* a transport constructor returned h
EvOpen(h) == Ev("open", h, -1, 0, TRUE, "")
\* b3CanSubmitCommand(h)
EvProbe(h, ok) == Ev("probe", h, -1, 0, ok, "")
\* sPhysicsClients1[i] = h; sPhysicsClientsGUI[i] = m
EvStore(i, h, m) == Ev("store", h, i, m, TRUE, "")
\* sPhysicsClients1[i] = 0, where it held h with method m
EvFree(i, h, m) == Ev("free", h, i, m, TRUE, "")
\* b3SubmitClientCommandAndWaitStatus(h, cmd) is called
EvSubmit(h, cmd) == Ev("submit", h, -1, 0, TRUE, cmd)
\* ... and returns a status of type tag
EvStatus(h, tag) == Ev("status", h, -1, 0, TRUE, tag)
\* b3DisconnectSharedMemory(h)
EvDisconnect(h) == Ev("disconnect", h, -1, 0, TRUE, "")

\* The positions of a trace that hold an event of kind e.
Events(trace, e) == {k \in 1 .. Len(trace) : trace[k].e = e}

\* How many times a sequence of events disconnects transport h.
RECURSIVE CountDisconnects(_, _)
CountDisconnects(trace, h) ==
    IF trace = <<>> THEN 0
    ELSE (IF Head(trace).e = "disconnect" /\ Head(trace).h = h THEN 1 ELSE 0)
         + CountDisconnects(Tail(trace), h)

\* -------------------------------------------------------------- registry
Registry(clients, gui, num) == [clients |-> clients, gui |-> gui, num |-> num]

Reg == Registry(sPhysicsClients1, sPhysicsClientsGUI, sNumPhysicsClients)

Occupied(clients) == {i \in Slots : clients[i] # 0}

\* getPhysicsClient with the upper range test off by one (> for >=): for
\* physicsClientId = MAX_PHYSICS_CLIENTS it reads the word after the table, here
\* the first entry of the method table, which is declared right after it.
getPhysicsClientOffByOne(reg, physicsClientId, probeOk) ==
    LET sm == IF physicsClientId = MAX_PHYSICS_CLIENTS THEN reg.gui[0]
              ELSE IF physicsClientId \in Slots THEN reg.clients[physicsClientId]
              ELSE 0
    IN
    IF physicsClientId < 0 \/ physicsClientId > MAX_PHYSICS_CLIENTS \/ sm = 0
    THEN [sm |-> 0, reg |-> reg, trace |-> <<>>]
    ELSE IF probeOk
    THEN [sm |-> sm, reg |-> reg, trace |-> <<EvProbe(sm, TRUE)>>]
    ELSE [sm |-> 0,
          reg |-> Registry([reg.clients EXCEPT ![physicsClientId] = 0],
                           [reg.gui EXCEPT ![physicsClientId] = 0],
                           reg.num - 1),
          trace |-> <<EvProbe(sm, FALSE), EvDisconnect(sm)>>]

\* getPhysicsClient forgetting sNumPhysicsClients-- when it evicts.
getPhysicsClientKeepsCount(reg, physicsClientId, probeOk) ==
    IF physicsClientId < 0 \/ physicsClientId >= MAX_PHYSICS_CLIENTS
       \/ reg.clients[physicsClientId] = 0
    THEN [sm |-> 0, reg |-> reg, trace |-> <<>>]
    ELSE LET sm == reg.clients[physicsClientId] IN
         IF probeOk
         THEN [sm |-> sm, reg |-> reg, trace |-> <<EvProbe(sm, TRUE)>>]
         ELSE [sm |-> 0,
               reg |-> Registry([reg.clients EXCEPT ![physicsClientId] = 0],
                                [reg.gui EXCEPT ![physicsClientId] = 0],
                                reg.num),
               trace |-> <<EvProbe(sm, FALSE), EvDisconnect(sm),
                           EvFree(physicsClientId, sm, reg.gui[physicsClientId])>>]

\* getPhysicsClient: the handle it returns (0: none), the registry it leaves
\* and the events it performs.  probeOk is b3CanSubmitCommand's answer.
getPhysicsClient(reg, physicsClientId, probeOk) ==
    IF physicsClientId < 0 \/ physicsClientId >= MAX_PHYSICS_CLIENTS
       \/ reg.clients[physicsClientId] = 0
    THEN [sm |-> 0, reg |-> reg, trace |-> <<>>]
    ELSE LET sm == reg.clients[physicsClientId] IN
         IF probeOk
         THEN [sm |-> sm, reg |-> reg, trace |-> <<EvProbe(sm, TRUE)>>]
         ELSE [sm |-> 0,
               reg |-> Registry([reg.clients EXCEPT ![physicsClientId] = 0],
                                [reg.gui EXCEPT ![physicsClientId] = 0],
                                reg.num - 1),
               trace |-> <<EvProbe(sm, FALSE), EvDisconnect(sm),
                           EvFree(physicsClientId, sm, reg.gui[physicsClientId])>>]

\* --------------------------------------------------------------- connect
CMD_SYNC_BODY_INFO_COMPLETED == "CMD_SYNC_BODY_INFO_COMPLETED"
CMD_SYNC_BODY_INFO_FAILED == "CMD_SYNC_BODY_INFO_FAILED"
CMD_SYNC_USER_DATA_COMPLETED == "CMD_SYNC_USER_DATA_COMPLETED"
CMD_SYNC_USER_DATA_FAILED == "CMD_SYNC_USER_DATA_FAILED"
\* What b3GetStatusType reports when the transport broke and no status came.
CMD_INVALID_STATUS == "CMD_INVALID_STATUS"

SyncBodyInfoStatuses ==
    {CMD_SYNC_BODY_INFO_COMPLETED, CMD_SYNC_BODY_INFO_FAILED}
SyncUserDataStatuses ==
    {CMD_SYNC_USER_DATA_COMPLETED, CMD_SYNC_USER_DATA_FAILED}

\* The capacity test with > for >=.
CapacityExceededOffByOne(num) == num > MAX_PHYSICS_CLIENTS

\* The capacity test at the top of connect.
CapacityExceeded(num) == num >= MAX_PHYSICS_CLIENTS

\* The scan looking for eCONNECT_GUI entries only.
GuiAlreadyOpenOnlyGui(method, gui) ==
    /\ method = eCONNECT_GUI
    /\ \E i \in Slots : gui[i] = eCONNECT_GUI

\* "Only one local in-process GUI connection allowed": the scan of the method
\* table, made when the requested method is eCONNECT_GUI.
GuiAlreadyOpen(method, gui) ==
    /\ method = eCONNECT_GUI
    /\ \E i \in Slots : gui[i] = eCONNECT_GUI \/ gui[i] = eCONNECT_GUI_SERVER

\* The switch on the method: whether a case constructs a transport for it.
MethodHasCase(method) ==
    method \in {eCONNECT_GUI, eCONNECT_DIRECT, eCONNECT_SHARED_MEMORY,
                eCONNECT_GUI_SERVER}

\* The scan keeping the last free slot it sees (the break is missing).
FindFreeIndexLast(clients) ==
    IF \E i \in Slots : clients[i] = 0
    THEN CHOOSE i \in Slots : clients[i] = 0 /\ \A j \in Slots : j > i => clients[j] # 0
    ELSE -1

\* The scan for the first free slot; -1 when there is none.
FindFreeIndex(clients) ==
    IF \E i \in Slots : clients[i] = 0
    THEN CHOOSE i \in Slots : clients[i] = 0 /\ \A j \in Slots : j < i => clients[j] # 0
    ELSE -1

\* The store writing eCONNECT_GUI into the method table whatever the method.
StoreClientAsGui(reg, freeIndex, sm, method) ==
    Registry([reg.clients EXCEPT ![freeIndex] = sm],
             [reg.gui EXCEPT ![freeIndex] = eCONNECT_GUI],
             reg.num + 1)

\* The new connection is entered in the table before the handshake.
StoreClient(reg, freeIndex, sm, method) ==
    Registry([reg.clients EXCEPT ![freeIndex] = sm],
             [reg.gui EXCEPT ![freeIndex] = method],
             reg.num + 1)

\* A failed handshake step that forgets to clear the slot's handle.
ReleaseAfterHandshakeFailureKeepsHandle(reg, freeIndex) ==
    Registry(reg.clients, [reg.gui EXCEPT ![freeIndex] = 0], reg.num + 1)

\* A failed handshake step that forgets to clear the method table.
ReleaseAfterHandshakeFailureKeepsMethod(reg, freeIndex) ==
    Registry([reg.clients EXCEPT ![freeIndex] = 0], reg.gui, reg.num + 1)

\* What a failed handshake step leaves: the slot is cleared, and the counter
\* is incremented a second time (sNumPhysicsClients++).
ReleaseAfterHandshakeFailure(reg, freeIndex) ==
    Registry([reg.clients EXCEPT ![freeIndex] = 0],
             [reg.gui EXCEPT ![freeIndex] = 0],
             reg.num + 1)

Outcome(reg, result, raised, why, trace) ==
    [reg |-> reg, result |-> result, raised |-> raised, why |-> why, trace |-> trace]

\* The handshake sending both commands before it waits for a status.
HandshakePipelined(sm, status1, status2) ==
    [ok |-> /\ status1 = CMD_SYNC_BODY_INFO_COMPLETED
            /\ status2 = CMD_SYNC_USER_DATA_COMPLETED,
     trace |-> <<EvSubmit(sm, "SyncBodyInfo"), EvSubmit(sm, "SyncUserData"),
                 EvStatus(sm, status1), EvStatus(sm, status2)>>]

\* The handshake sending the second command without looking at the status of
\* the first.
HandshakeIgnoresFirstStatus(sm, status1, status2) ==
    [ok |-> /\ status1 = CMD_SYNC_BODY_INFO_COMPLETED
            /\ status2 = CMD_SYNC_USER_DATA_COMPLETED,
     trace |-> <<EvSubmit(sm, "SyncBodyInfo"), EvStatus(sm, status1),
                 EvSubmit(sm, "SyncUserData"), EvStatus(sm, status2)>>]

\* The two handshake round trips of connect on transport sm: whether both
\* returned their completed status types, and the events in order.  The second
\* command is built only after the first status was read and found completed.
Handshake(sm, status1, status2) ==
    LET t1 == <<EvSubmit(sm, "SyncBodyInfo"), EvStatus(sm, status1)>> IN
    IF status1 # CMD_SYNC_BODY_INFO_COMPLETED
    THEN [ok |-> FALSE, trace |-> t1]
    ELSE [ok |-> status2 = CMD_SYNC_USER_DATA_COMPLETED,
          trace |-> t1 \o <<EvSubmit(sm, "SyncUserData"), EvStatus(sm, status2)>>]

\* connect without the else branch of the probe: a transport that does not
\* answer the probe is not disconnected.
connectPhysicsServerKeepsUnprobed(reg, method, sm, probeOk, status1, status2) ==
    IF CapacityExceeded(reg.num)
    THEN Outcome(reg, -1, "BulletError", "CapacityExceeded", <<>>)
    ELSE IF GuiAlreadyOpen(method, reg.gui)
    THEN Outcome(reg, -1, "BulletError", "ExclusivityViolation", <<>>)
    ELSE IF ~MethodHasCase(method)
    THEN Outcome(reg, -1, "BulletError", "UnexpectedArgument", <<>>)
    ELSE IF sm = 0
    THEN Outcome(reg, -1, "none", "OpenFailed", <<>>)
    ELSE IF ~probeOk
    THEN Outcome(reg, -1, "none", "ProbeFailed", <<EvOpen(sm), EvProbe(sm, FALSE)>>)
    ELSE
    LET freeIndex == FindFreeIndex(reg.clients)
        t0 == <<EvOpen(sm), EvProbe(sm, TRUE)>>
    IN
    IF freeIndex < 0
    THEN Outcome(reg, freeIndex, "none", "NoFreeIndex", t0)
    ELSE
    LET stored == StoreClient(reg, freeIndex, sm, method)
        hs == Handshake(sm, status1, status2)
        t1 == t0 \o <<EvStore(freeIndex, sm, method)>> \o hs.trace
    IN
    IF ~hs.ok
    THEN Outcome(ReleaseAfterHandshakeFailure(stored, freeIndex), -1, "none",
                 "HandshakeFailed",
                 t1 \o <<EvDisconnect(sm), EvFree(freeIndex, sm, method)>>)
    ELSE Outcome(stored, freeIndex, "none", "ok", t1)

\* pybullet_connectPhysicsServer.  sm is the handle the transport constructor
\* would return (0: it fails), probeOk is b3CanSubmitCommand's answer on it,
\* status1 and status2 the status types of the two handshake round trips.
connectPhysicsServer(reg, method, sm, probeOk, status1, status2) ==
    IF CapacityExceeded(reg.num)
    THEN Outcome(reg, -1, "BulletError", "CapacityExceeded", <<>>)
    ELSE IF GuiAlreadyOpen(method, reg.gui)
    THEN Outcome(reg, -1, "BulletError", "ExclusivityViolation", <<>>)
    ELSE IF ~MethodHasCase(method)
    THEN Outcome(reg, -1, "BulletError", "UnexpectedArgument", <<>>)
    ELSE IF sm = 0
    THEN Outcome(reg, -1, "none", "OpenFailed", <<>>)
    ELSE IF ~probeOk
    THEN Outcome(reg, -1, "none", "ProbeFailed",
                 <<EvOpen(sm), EvProbe(sm, FALSE), EvDisconnect(sm)>>)
    ELSE
    LET freeIndex == FindFreeIndex(reg.clients)
        t0 == <<EvOpen(sm), EvProbe(sm, TRUE)>>
    IN
    IF freeIndex < 0
    THEN Outcome(reg, freeIndex, "none", "NoFreeIndex", t0)
    ELSE
    LET stored == StoreClient(reg, freeIndex, sm, method)
        hs == Handshake(sm, status1, status2)
        t1 == t0 \o <<EvStore(freeIndex, sm, method)>> \o hs.trace
    IN
    IF ~hs.ok
    THEN Outcome(ReleaseAfterHandshakeFailure(stored, freeIndex), -1, "none",
                 "HandshakeFailed",
                 t1 \o <<EvDisconnect(sm), EvFree(freeIndex, sm, method)>>)
    ELSE Outcome(stored, freeIndex, "none", "ok", t1)

\* ------------------------------------------------------------ disconnect
\* disconnect clearing the whole method table instead of one entry.
ReleaseSlotClearsMethodTable(reg, physicsClientId) ==
    Registry([reg.clients EXCEPT ![physicsClientId] = 0],
             [i \in Slots |-> 0],
             reg.num - 1)

\* disconnect forgetting to clear the method table.
ReleaseSlotKeepsMethod(reg, physicsClientId) ==
    Registry([reg.clients EXCEPT ![physicsClientId] = 0], reg.gui, reg.num - 1)

\* disconnect forgetting to clear the handle.
ReleaseSlotKeepsHandle(reg, physicsClientId) ==
    Registry(reg.clients, [reg.gui EXCEPT ![physicsClientId] = 0], reg.num - 1)

\* The slot is cleared and the counter decremented after the transport is
\* disconnected.
ReleaseSlot(reg, physicsClientId) ==
    Registry([reg.clients EXCEPT ![physicsClientId] = 0],
             [reg.gui EXCEPT ![physicsClientId] = 0],
             reg.num - 1)

\* disconnect decrementing the counter before it looks at what
\* getPhysicsClient returned.
disconnectPhysicsServerCountsFirst(reg, physicsClientId, probeOk) ==
    LET g == getPhysicsClient(reg, physicsClientId, probeOk) IN
    IF g.sm = 0
    THEN Outcome(Registry(g.reg.clients, g.reg.gui, g.reg.num - 1), 0,
                 "BulletNotConnectedError", "NotConnected", g.trace)
    ELSE Outcome(Registry([g.reg.clients EXCEPT ![physicsClientId] = 0],
                          [g.reg.gui EXCEPT ![physicsClientId] = 0],
                          g.reg.num - 1),
                 0, "none", "ok",
                 g.trace \o <<EvDisconnect(g.sm),
                               EvFree(physicsClientId, g.sm, g.reg.gui[physicsClientId])>>)

\* pybullet_disconnectPhysicsServer.
disconnectPhysicsServer(reg, physicsClientId, probeOk) ==
    LET g == getPhysicsClient(reg, physicsClientId, probeOk) IN
    IF g.sm = 0
    THEN Outcome(g.reg, 0, "BulletNotConnectedError", "NotConnected", g.trace)
    ELSE Outcome(ReleaseSlot(g.reg, physicsClientId), 0, "none", "ok",
                 g.trace \o <<EvDisconnect(g.sm),
                               EvFree(physicsClientId, g.sm, g.reg.gui[physicsClientId])>>)

\* ------------------------------------------- per-connection operations
CMD_STEP_FORWARD_SIMULATION_COMPLETED == "CMD_STEP_FORWARD_SIMULATION_COMPLETED"

CMD_RESET_SIMULATION_COMPLETED == "CMD_RESET_SIMULATION_COMPLETED"

StepStatuses == {CMD_STEP_FORWARD_SIMULATION_COMPLETED, CMD_INVALID_STATUS}
ResetStatuses == {CMD_RESET_SIMULATION_COMPLETED, CMD_INVALID_STATUS}
SyncBodyInfoOpStatuses ==
    {CMD_SYNC_BODY_INFO_COMPLETED, CMD_SYNC_BODY_INFO_FAILED, CMD_INVALID_STATUS}

\* pybullet_stepSimulation: result 1 stands for the analytics tuple, 0 for None.
\* probe2Ok is the answer of the second b3CanSubmitCommand, made after the one
\* in getPhysicsClient.
stepSimulation(reg, physicsClientId, probeOk, probe2Ok, status) ==
    LET g == getPhysicsClient(reg, physicsClientId, probeOk) IN
    IF g.sm = 0
    THEN Outcome(g.reg, 0, "BulletNotConnectedError", "NotConnected", g.trace)
    ELSE IF ~probe2Ok
    THEN Outcome(g.reg, 0, "none", "ProbeFailed", g.trace \o <<EvProbe(g.sm, FALSE)>>)
    ELSE
    LET t == g.trace \o <<EvProbe(g.sm, TRUE), EvSubmit(g.sm, "StepSimulation"),
                          EvStatus(g.sm, status)>>
    IN
    IF status = CMD_STEP_FORWARD_SIMULATION_COMPLETED
    THEN Outcome(g.reg, 1, "none", "ok", t)
    ELSE Outcome(g.reg, 0, "none", "CommandFailed", t)

\* syncBodyInfo tearing the connection down when its command fails.
syncBodyInfoEvictsOnFailure(reg, physicsClientId, probeOk, status) ==
    LET g == getPhysicsClient(reg, physicsClientId, probeOk) IN
    IF g.sm = 0
    THEN Outcome(g.reg, 0, "BulletNotConnectedError", "NotConnected", g.trace)
    ELSE
    LET t == g.trace \o <<EvSubmit(g.sm, "SyncBodyInfo"), EvStatus(g.sm, status)>> IN
    IF status # CMD_SYNC_BODY_INFO_COMPLETED
    THEN Outcome(Registry([g.reg.clients EXCEPT ![physicsClientId] = 0],
                          [g.reg.gui EXCEPT ![physicsClientId] = 0],
                          g.reg.num - 1),
                 0, "BulletError", "CommandFailed",
                 t \o <<EvDisconnect(g.sm),
                         EvFree(physicsClientId, g.sm, g.reg.gui[physicsClientId])>>)
    ELSE Outcome(g.reg, 0, "none", "ok", t)

\* pybullet_syncBodyInfo.
syncBodyInfo(reg, physicsClientId, probeOk, status) ==
    LET g == getPhysicsClient(reg, physicsClientId, probeOk) IN
    IF g.sm = 0
    THEN Outcome(g.reg, 0, "BulletNotConnectedError", "NotConnected", g.trace)
    ELSE
    LET t == g.trace \o <<EvSubmit(g.sm, "SyncBodyInfo"), EvStatus(g.sm, status)>> IN
    IF status # CMD_SYNC_BODY_INFO_COMPLETED
    THEN Outcome(g.reg, 0, "BulletError", "CommandFailed", t)
    ELSE Outcome(g.reg, 0, "none", "ok", t)

\* resetSimulation sending its command without waiting for the status.
resetSimulationFireAndForget(reg, physicsClientId, probeOk, status) ==
    LET g == getPhysicsClient(reg, physicsClientId, probeOk) IN
    IF g.sm = 0
    THEN Outcome(g.reg, 0, "BulletNotConnectedError", "NotConnected", g.trace)
    ELSE Outcome(g.reg, 0, "none", "ok",
                 g.trace \o <<EvSubmit(g.sm, "ResetSimulation")>>)

\* resetSimulation reading the table itself instead of calling
\* getPhysicsClient: the transport is not probed before the command is sent.
resetSimulationSkipsProbe(reg, physicsClientId, probeOk, status) ==
    IF physicsClientId < 0 \/ physicsClientId >= MAX_PHYSICS_CLIENTS
       \/ reg.clients[physicsClientId] = 0
    THEN Outcome(reg, 0, "BulletNotConnectedError", "NotConnected", <<>>)
    ELSE Outcome(reg, 0, "none", "ok",
                 <<EvSubmit(reg.clients[physicsClientId], "ResetSimulation"),
                   EvStatus(reg.clients[physicsClientId], status)>>)

\* pybullet_resetSimulation: the status of the reset command is not looked at.
resetSimulation(reg, physicsClientId, probeOk, status) ==
    LET g == getPhysicsClient(reg, physicsClientId, probeOk) IN
    IF g.sm = 0
    THEN Outcome(g.reg, 0, "BulletNotConnectedError", "NotConnected", g.trace)
    ELSE Outcome(g.reg, 0, "none", "ok",
                 g.trace \o <<EvSubmit(g.sm, "ResetSimulation"),
                               EvStatus(g.sm, status)>>)

\* The introspection calls clearing the slot's method when their own probe
\* (the second one) fails.
connectionInfoClearsMethod(reg, physicsClientId, probeOk, probe2Ok) ==
    LET g == getPhysicsClient(reg, physicsClientId, probeOk) IN
    IF g.sm = 0
    THEN [out |-> Outcome(g.reg, 0, "none", "NotConnected", g.trace), method |-> 0]
    ELSE IF ~probe2Ok
    THEN [out |-> Outcome(Registry(g.reg.clients,
                                   [g.reg.gui EXCEPT ![physicsClientId] = 0],
                                   g.reg.num),
                          0, "none", "ProbeFailed",
                          g.trace \o <<EvProbe(g.sm, FALSE)>>),
          method |-> 0]
    ELSE [out |-> Outcome(g.reg, 1, "none", "ok", g.trace \o <<EvProbe(g.sm, TRUE)>>),
          method |-> g.reg.gui[physicsClientId]]

\* pybullet_isConnected and pybullet_getConnectionInfo: result is isConnected;
\* method is the connectionMethod that getConnectionInfo reports.
connectionInfo(reg, physicsClientId, probeOk, probe2Ok) ==
    LET g == getPhysicsClient(reg, physicsClientId, probeOk) IN
    IF g.sm = 0
    THEN [out |-> Outcome(g.reg, 0, "none", "NotConnected", g.trace), method |-> 0]
    ELSE IF ~probe2Ok
    THEN [out |-> Outcome(g.reg, 0, "none", "ProbeFailed",
                          g.trace \o <<EvProbe(g.sm, FALSE)>>),
          method |-> 0]
    ELSE [out |-> Outcome(g.reg, 1, "none", "ok", g.trace \o <<EvProbe(g.sm, TRUE)>>),
          method |-> g.reg.gui[physicsClientId]]

\* ---------------------------------------------------------- exit handler
\* b3pybulletExitFunc: every stored transport is disconnected, its slot cleared
\* and the counter decremented; the method table is not touched.
RECURSIVE ExitTrace(_, _)
ExitTrace(reg, i) ==
    IF i >= MAX_PHYSICS_CLIENTS THEN <<>>
    ELSE (IF reg.clients[i] # 0
          THEN <<EvDisconnect(reg.clients[i]), EvFree(i, reg.clients[i], reg.gui[i])>>
          ELSE <<>>)
         \o ExitTrace(reg, i + 1)

exitFunc(reg) ==
    Outcome(Registry([i \in Slots |-> 0], reg.gui,
                     reg.num - Cardinality(Occupied(reg.clients))),
            0, "none", "ok", ExitTrace(reg, 0))

\* ------------------------------------------------- example browser state
\* OpenGLExampleBrowser.cpp keeps its state in file-scope variables; the
\* registry above and the browser do not touch each other's variables.
\* Registered examples are 0 .. NumDemos-1; file importers 1 .. NumImporters;
\* example instances are numbered 1 .. MaxExamples in the order they are
\* created, 0 standing for the null pointer.
NumDemos == 1
NumImporters == 2
MaxExamples == 2

DemoIndexes == 0 .. (NumDemos - 1)
Importers == 1 .. NumImporters
Examples == 1 .. MaxExamples

VARIABLES
    pauseSimulation,
    singleStepSimulation,
    gEnableRenderLoop,
    gEnableDefaultKeyboardShortcuts,
    sCurrentDemo,        \* the current example instance, 0 when there is none
    sCurrentDemoIndex,
    liveExamples,        \* the example instances created and not deleted
    numExamples,         \* example instances created so far
    crashed,             \* the browser dereferenced a null or wild pointer
    lastB                \* the most recent browser call

bvars ==
    <<pauseSimulation, singleStepSimulation, gEnableRenderLoop,
      gEnableDefaultKeyboardShortcuts, sCurrentDemo, sCurrentDemoIndex,
      liveExamples, numExamples, crashed, lastB>>

\* The record of a browser call: the key, flag or index it was given, whether
\* an update ran the full loop, how many times it stepped the simulation, how
\* many example instances the call created, and the index of the registered
\* example whose create function it called (-1: none).
BrowserCall(op, key, flag, enable, index, full, steps, created, used) ==
    [op |-> op, key |-> key, flag |-> flag, enable |-> enable, index |-> index,
     full |-> full, steps |-> steps, created |-> created, used |-> used]

BrowserInit ==
    /\ pauseSimulation = FALSE
    /\ singleStepSimulation = FALSE
    /\ gEnableRenderLoop = TRUE
    /\ gEnableDefaultKeyboardShortcuts = TRUE
    /\ sCurrentDemo = 0
    /\ sCurrentDemoIndex = -1
    /\ liveExamples = {}
    /\ numExamples = 0
    /\ crashed = FALSE
    /\ lastB = BrowserCall("none", "", "", FALSE, -1, FALSE, 0, 0, -1)

\* --------------------------------------------------------- canvas state
\* QuickCanvas: graph windows and textures are numbered 1 .. MaxCanvases in
\* the order they are created, 0 standing for the null pointer.
MAX_GRAPH_WINDOWS == 5
MaxCanvases == 6

CanvasSlots == 0 .. (MAX_GRAPH_WINDOWS - 1)
Canvases == 1 .. MaxCanvases

VARIABLES
    m_gw,                  \* slot -> graph window, 0 when empty
    m_gt,                  \* slot -> texture, 0 when empty
    m_curNumGraphWindows,
    numCanvases,           \* canvases created so far
    liveCanvases,          \* the canvases created and not destroyed
    lastC                  \* the most recent canvas call

cvars == <<m_gw, m_gt, m_curNumGraphWindows, numCanvases, liveCanvases, lastC>>

\* The record of a canvas call; before tells whether the slot the call
\* returned held a graph window or a texture when the call was made.
CanvasCall(op, id, result, before) ==
    [op |-> op, id |-> id, result |-> result, before |-> before]

CanvasInit ==
    /\ m_gw = [i \in CanvasSlots |-> 0]
    /\ m_gt = [i \in CanvasSlots |-> 0]
    /\ m_curNumGraphWindows = 0
    /\ numCanvases = 0
    /\ liveCanvases = {}
    /\ lastC = CanvasCall("none", -1, -1, FALSE)

\* ------------------------------------------------------------ the calls
\* The calls that take a physicsClientId and start with getPhysicsClient.
ClientOps ==
    {"disconnect", "stepSimulation", "syncBodyInfo", "resetSimulation",
     "isConnected", "getConnectionInfo"}

\* The record of a call.  For a call on an id, and for a connect that returns
\* an id, after is the outcome of the call before it when that was a disconnect
\* of the same id ("none" otherwise).
Call(op, id, method, out, prev) ==
    [op |-> op, id |-> id, method |-> method, result |-> out.result,
     raised |-> out.raised, why |-> out.why, trace |-> out.trace,
     after |-> IF /\ prev.op = "disconnect"
                  /\ \/ op \in ClientOps /\ prev.id = id
                     \/ op = "connect" /\ out.result \in Slots /\ prev.id = out.result
               THEN prev.why ELSE "none"]

\* A call's effect on the variables: the registry it leaves, the transports it
\* constructed and disconnected, and the record of the call.
Apply(op, id, method, out) ==
    /\ sPhysicsClients1' = out.reg.clients
    /\ sPhysicsClientsGUI' = out.reg.gui
    /\ sNumPhysicsClients' = out.reg.num
    /\ numOpened' = numOpened + Cardinality(Events(out.trace, "open"))
    /\ disconnects' = [h \in Handles |->
                          disconnects[h] + CountDisconnects(out.trace, h)]
    /\ last' = Call(op, id, method, out, last)
    /\ UNCHANGED <<bvars, cvars>>

Init ==
    /\ sPhysicsClients1 = [i \in Slots |-> 0]
    /\ sPhysicsClientsGUI = [i \in Slots |-> 0]
    /\ sNumPhysicsClients = 0
    /\ numOpened = 0
    /\ disconnects = [h \in Handles |-> 0]
    /\ exited = FALSE
    /\ last = [op |-> "none", id |-> 0, method |-> 0, result |-> 0,
               raised |-> "none", why |-> "none", trace |-> <<>>,
               after |-> "none"]
    /\ BrowserInit
    /\ CanvasInit

\* The handle a transport constructor returns: a fresh one, or 0 when it fails
\* (and it fails once MaxHandles transports have been constructed).
NewHandle(opens) ==
    IF opens /\ numOpened < MaxHandles THEN numOpened + 1 ELSE 0

\* Each action offers the outcomes its handler can produce in the current
\* state, one per answer of the outside world (inputs that the handler never
\* consults on a path give the same outcome and are offered once).
Connect ==
    /\ ~exited
    /\ \E method \in ConnectMethods :
          \E out \in {connectPhysicsServer(Reg, method, NewHandle(opens), probeOk,
                                           status1, status2) :
                         opens \in BOOLEAN, probeOk \in BOOLEAN,
                         status1 \in SyncBodyInfoStatuses,
                         status2 \in SyncUserDataStatuses} :
             Apply("connect", -1, method, out)
    /\ UNCHANGED exited

Disconnect ==
    /\ ~exited
    /\ \E physicsClientId \in ClientIds :
          \E out \in {disconnectPhysicsServer(Reg, physicsClientId, probeOk) :
                         probeOk \in BOOLEAN} :
             Apply("disconnect", physicsClientId, 0, out)
    /\ UNCHANGED exited

StepSimulation ==
    /\ ~exited
    /\ \E physicsClientId \in ClientIds :
          \E out \in {stepSimulation(Reg, physicsClientId, probeOk, probe2Ok, status) :
                         probeOk \in BOOLEAN, probe2Ok \in BOOLEAN,
                         status \in StepStatuses} :
             Apply("stepSimulation", physicsClientId, 0, out)
    /\ UNCHANGED exited

SyncBodyInfo ==
    /\ ~exited
    /\ \E physicsClientId \in ClientIds :
          \E out \in {syncBodyInfo(Reg, physicsClientId, probeOk, status) :
                         probeOk \in BOOLEAN, status \in SyncBodyInfoOpStatuses} :
             Apply("syncBodyInfo", physicsClientId, 0, out)
    /\ UNCHANGED exited

ResetSimulation ==
    /\ ~exited
    /\ \E physicsClientId \in ClientIds :
          \E out \in {resetSimulation(Reg, physicsClientId, probeOk, status) :
                         probeOk \in BOOLEAN, status \in ResetStatuses} :
             Apply("resetSimulation", physicsClientId, 0, out)
    /\ UNCHANGED exited

IsConnected ==
    /\ ~exited
    /\ \E physicsClientId \in ClientIds :
          \E r \in {connectionInfo(Reg, physicsClientId, probeOk, probe2Ok) :
                       probeOk \in BOOLEAN, probe2Ok \in BOOLEAN} :
             Apply("isConnected", physicsClientId, 0, r.out)
    /\ UNCHANGED exited

GetConnectionInfo ==
    /\ ~exited
    /\ \E physicsClientId \in ClientIds :
          \E r \in {connectionInfo(Reg, physicsClientId, probeOk, probe2Ok) :
                       probeOk \in BOOLEAN, probe2Ok \in BOOLEAN} :
             Apply("getConnectionInfo", physicsClientId, r.method, r.out)
    /\ UNCHANGED exited

ExitFunc ==
    /\ ~exited
    /\ Apply("exit", -1, 0, exitFunc(Reg))
    /\ exited' = TRUE

Next ==
    \/ Connect
    \/ Disconnect
    \/ StepSimulation
    \/ SyncBodyInfo
    \/ ResetSimulation
    \/ IsConnected
    \/ GetConnectionInfo
    \/ ExitFunc

Spec == Init /\ [][Next]_vars

\* =================================================================== claims
\* Every step that changes a variable is one call, and last' is its record: a
\* step with last'.op = "connect" is a connect call, made in the unprimed state.
\* The ids that resolve to a transport when its probe answers yes.
ValidIds == {id \in ClientIds : getPhysicsClient(Reg, id, TRUE).sm # 0}

\* An occupied slot holds an interactive connection.
InteractiveOpen ==
    \E i \in Slots :
        /\ sPhysicsClients1[i] # 0
        /\ sPhysicsClientsGUI[i] \in {eCONNECT_GUI, eCONNECT_GUI_SERVER}

\* Every outcome a connect(method) call made in the current state can have: the
\* constructor fails or returns the next fresh handle, the probe answers either
\* way, each handshake status is any of its types.
ConnectCases(method) ==
    {connectPhysicsServer(Reg, method, sm, probeOk, status1, status2) :
        sm \in {0, numOpened + 1}, probeOk \in BOOLEAN,
        status1 \in SyncBodyInfoStatuses, status2 \in SyncUserDataStatuses}

\* The outcome of a connect(method) call for which everything outside goes well:
\* the transport opens, the probe answers yes, both handshake steps complete.
ConnectAllWell(method) ==
    connectPhysicsServer(Reg, method, numOpened + 1, TRUE,
                         CMD_SYNC_BODY_INFO_COMPLETED, CMD_SYNC_USER_DATA_COMPLETED)

\* C1: in every reachable state the valid client ids are exactly the occupied
\* slots of the table, and there are never more of them than
\* MAX_PHYSICS_CLIENTS.
C1_ValidIdsWithinCapacity ==
    /\ ValidIds = Occupied(sPhysicsClients1)
    /\ Cardinality(ValidIds) <= MAX_PHYSICS_CLIENTS

\* C1 witness: a connect has just filled the last free slot.
C1_Witness ==
    /\ last.op = "connect" /\ last.why = "ok"
    /\ Cardinality(ValidIds) = MAX_PHYSICS_CLIENTS

\* C2 (as claimed): at most one occupied slot has method eCONNECT_GUI or
\* eCONNECT_GUI_SERVER.
C2_AtMostOneInteractive ==
    Cardinality({i \in Slots : /\ sPhysicsClients1[i] # 0
                               /\ sPhysicsClientsGUI[i] \in
                                      {eCONNECT_GUI, eCONNECT_GUI_SERVER}}) <= 1

\* C3 (as claimed): while a connection with method eCONNECT_GUI is open, every
\* connect(eCONNECT_GUI_SERVER) fails with the exclusivity error and leaves the
\* registry, and so the first connection's slot, as it was.
C3_GuiServerRejectedWhileGuiOpen ==
    [][(/\ \E i \in Slots : /\ sPhysicsClients1[i] # 0
                            /\ sPhysicsClientsGUI[i] = eCONNECT_GUI
        /\ last'.op = "connect"
        /\ last'.method = eCONNECT_GUI_SERVER)
       => /\ last'.raised = "BulletError"
          /\ last'.why = "ExclusivityViolation"
          /\ Reg' = Reg]_vars

\* C4 (as claimed): while an interactive connection is open, every
\* connect(eCONNECT_GUI) fails with the exclusivity error, constructs no
\* transport and leaves the registry unchanged.  Stated for the states in which
\* the counter equals the number of occupied slots, so that what refutes it is
\* a table that really is full and not a counter that has drifted.
C4_GuiRejectedWhileInteractiveOpen ==
    (/\ ~exited /\ InteractiveOpen
     /\ sNumPhysicsClients = Cardinality(Occupied(sPhysicsClients1)))
    => \A out \in ConnectCases(eCONNECT_GUI) :
           /\ out.raised = "BulletError"
           /\ out.why = "ExclusivityViolation"
           /\ out.trace = <<>>
           /\ out.reg = Reg

\* C4 (amended): while an interactive connection is open, every
\* connect(eCONNECT_GUI) raises an error, constructs no transport and leaves the
\* registry unchanged; the error is the exclusivity error when the counter is
\* below MAX_PHYSICS_CLIENTS and the capacity error otherwise.
C4_GuiRejectedUnlessAtCapacity ==
    (~exited /\ InteractiveOpen)
    => \A out \in ConnectCases(eCONNECT_GUI) :
           /\ out.raised = "BulletError"
           /\ out.why = (IF sNumPhysicsClients >= MAX_PHYSICS_CLIENTS
                         THEN "CapacityExceeded" ELSE "ExclusivityViolation")
           /\ out.trace = <<>>
           /\ out.reg = Reg

\* C4 witness: a connect(eCONNECT_GUI) was just rejected for exclusivity while
\* a eCONNECT_GUI_SERVER connection is open.
C4_Witness ==
    /\ last.op = "connect" /\ last.method = eCONNECT_GUI
    /\ last.why = "ExclusivityViolation"
    /\ \E i \in Slots : /\ sPhysicsClients1[i] # 0
                        /\ sPhysicsClientsGUI[i] = eCONNECT_GUI_SERVER

\* C5: when no interactive connection is open (in particular once the only one
\* was torn down by disconnect or by eviction), no connect(eCONNECT_GUI) is
\* rejected with the exclusivity error.
C5_ExclusivityReleasedByTeardown ==
    (~exited /\ ~InteractiveOpen)
    => \A out \in ConnectCases(eCONNECT_GUI) : out.why # "ExclusivityViolation"

\* C5 witness: the last call evicted the only interactive connection (its probe
\* failed in getPhysicsClient), and connect(eCONNECT_GUI) now succeeds.
C5_Witness ==
    /\ ~exited /\ ~InteractiveOpen
    /\ last.op # "disconnect" /\ last.why = "NotConnected"
    /\ \E k \in Events(last.trace, "free") :
          last.trace[k].m \in {eCONNECT_GUI, eCONNECT_GUI_SERVER}
    /\ ConnectAllWell(eCONNECT_GUI).why = "ok"

\* C6: with every slot of the table occupied, every connect, whatever its
\* method, raises the capacity error, yields no valid id, constructs no
\* transport and leaves the registry unchanged.
C6_FullTableRejectsConnect ==
    (~exited /\ Occupied(sPhysicsClients1) = Slots)
    => \A method \in ConnectMethods : \A out \in ConnectCases(method) :
           /\ out.raised = "BulletError"
           /\ out.why = "CapacityExceeded"
           /\ out.result \notin Slots
           /\ out.trace = <<>>
           /\ out.reg = Reg

\* C6 witness: a connect was just rejected for capacity with the table full.
C6_Witness ==
    /\ last.op = "connect" /\ last.why = "CapacityExceeded"
    /\ last.raised = "BulletError"
    /\ Occupied(sPhysicsClients1) = Slots

\* C7: a connect in which a handshake round trip returns another status type
\* than its completed one disconnects the new transport (once), leaves the slot
\* it had taken with handle 0 and method 0, and returns -1 without raising.
C7_HandshakeFailureReleasesSlot ==
    ~exited =>
    \A method \in ConnectMethods : \A out \in ConnectCases(method) :
        (\E k \in Events(out.trace, "status") :
            out.trace[k].t \notin {CMD_SYNC_BODY_INFO_COMPLETED,
                                   CMD_SYNC_USER_DATA_COMPLETED})
        => /\ out.result = -1
           /\ out.raised = "none"
           /\ CountDisconnects(out.trace, numOpened + 1) = 1
           /\ out.trace[Len(out.trace) - 1] = EvDisconnect(numOpened + 1)
           /\ \A k \in Events(out.trace, "store") :
                 /\ out.trace[k].h = numOpened + 1
                 /\ out.reg.clients[out.trace[k].i] = 0
                 /\ out.reg.gui[out.trace[k].i] = 0

\* C7 witness: a connect just failed in its second handshake step (sync user
\* data), after the first one completed.
C7_Witness ==
    /\ last.op = "connect" /\ last.result = -1 /\ last.raised = "none"
    /\ \E k \in Events(last.trace, "status") :
          last.trace[k].t = CMD_SYNC_USER_DATA_FAILED
    /\ \E k \in Events(last.trace, "store") :
          sPhysicsClients1[last.trace[k].i] = 0

\* C8 (as claimed): a connect that fails for capacity, for exclusivity or in
\* the handshake leaves the slot table, the method table and the counter as
\* they were before the call.
C8_FailedConnectLeavesRegistry ==
    [][(/\ last'.op = "connect"
        /\ last'.why \in {"CapacityExceeded", "ExclusivityViolation",
                          "HandshakeFailed"})
       => Reg' = Reg]_vars

\* C9 (as claimed): whenever a slot is free and exclusivity is not violated, a
\* connect whose transport opens, answers the probe and completes both
\* handshake steps succeeds, whatever connects failed before.
C9_ConnectRecovers ==
    (~exited /\ Occupied(sPhysicsClients1) # Slots)
    => \A method \in ConnectMethods :
           (/\ MethodHasCase(method)
            /\ ~(method \in {eCONNECT_GUI, eCONNECT_GUI_SERVER} /\ InteractiveOpen))
           => /\ ConnectAllWell(method).result \in Slots
              /\ ConnectAllWell(method).raised = "none"

\* C10: for every id, a second disconnect(id) leaves the slot table, the method
\* table and the counter as the first one left them, whatever the probes answer.
C10_DisconnectIdempotent ==
    ~exited =>
    \A id \in ClientIds : \A probeOk \in BOOLEAN, probe2Ok \in BOOLEAN :
        LET once == disconnectPhysicsServer(Reg, id, probeOk).reg IN
        disconnectPhysicsServer(once, id, probe2Ok).reg = once

\* C10 witness: disconnect(id) was just called right after a disconnect(id)
\* that had torn the connection down.
C10_Witness ==
    /\ last.op = "disconnect" /\ last.after = "ok"
    /\ last.id \in Slots
    /\ last.why = "NotConnected"

\* The id has no slot holding a transport: it is out of range or its slot is
\* free (never taken, released by disconnect, or evicted).
NoSlot(id) == id \notin Slots \/ sPhysicsClients1[id] = 0

\* C11 (as claimed): disconnect(id) on an id whose slot is free changes nothing,
\* touches no transport and reports no error to the caller.
C11_DisconnectFreeIdSilent ==
    [][(last'.op = "disconnect" /\ NoSlot(last'.id))
       => /\ Reg' = Reg
          /\ last'.trace = <<>>
          /\ last'.raised = "none"]_vars

\* C11 (amended): disconnect(id) on an id whose slot is free changes nothing and
\* touches no transport, and raises BulletNotConnectedError (NotConnected).
C11_DisconnectFreeIdNotConnected ==
    [][(last'.op = "disconnect" /\ NoSlot(last'.id))
       => /\ Reg' = Reg
          /\ last'.trace = <<>>
          /\ last'.raised = "BulletNotConnectedError"
          /\ last'.why = "NotConnected"]_vars

\* C11 witness: disconnect was just called on an id of the table before any
\* transport was ever constructed.
C11_Witness ==
    /\ last.op = "disconnect" /\ last.id \in Slots
    /\ numOpened = 0
    /\ last.raised = "BulletNotConnectedError"

\* Every outcome a stepSimulation, syncBodyInfo or resetSimulation call on id
\* made in the current state can have, whatever the probes and the server answer.
OperationCases(id) ==
    {stepSimulation(Reg, id, probeOk, probe2Ok, status) :
        probeOk \in BOOLEAN, probe2Ok \in BOOLEAN, status \in StepStatuses}
    \cup {syncBodyInfo(Reg, id, probeOk, status) :
             probeOk \in BOOLEAN, status \in SyncBodyInfoOpStatuses}
    \cup {resetSimulation(Reg, id, probeOk, status) :
             probeOk \in BOOLEAN, status \in ResetStatuses}

\* C12: once disconnect(id) has returned, the slot of id is free and every
\* stepSimulation, syncBodyInfo or resetSimulation on id raises
\* BulletNotConnectedError, touches no transport and changes nothing; the call
\* made right after a disconnect(id) on the same id did so.
C12_OperationAfterDisconnectNotConnected ==
    /\ last.op = "disconnect"
       => /\ NoSlot(last.id)
          /\ \A out \in OperationCases(last.id) :
                /\ out.raised = "BulletNotConnectedError"
                /\ out.why = "NotConnected"
                /\ out.trace = <<>>
                /\ out.reg = Reg
    /\ (/\ last.op \in {"stepSimulation", "syncBodyInfo", "resetSimulation"}
        /\ last.after # "none")
       => /\ last.raised = "BulletNotConnectedError"
          /\ last.trace = <<>>

\* C12 witness: resetSimulation(id) was just called right after a disconnect(id)
\* that had torn the connection down, and raised BulletNotConnectedError.
C12_Witness ==
    /\ last.op = "resetSimulation" /\ last.after = "ok"
    /\ last.id \in Slots
    /\ last.raised = "BulletNotConnectedError"

\* C13: on an occupied slot, getPhysicsClient with a failing probe disconnects
\* the stored transport (once), clears the slot's handle and method, decrements
\* the counter by one and returns 0, which the caller reports as NotConnected;
\* with a succeeding probe it returns the stored transport, disconnects nothing
\* and leaves the registry as it was.
C13_FailedProbeEvicts ==
    \A id \in Slots :
        sPhysicsClients1[id] # 0 =>
        LET live == getPhysicsClient(Reg, id, TRUE)
            dead == getPhysicsClient(Reg, id, FALSE)
        IN
        /\ live.sm = sPhysicsClients1[id]
        /\ live.reg = Reg
        /\ live.trace = <<EvProbe(sPhysicsClients1[id], TRUE)>>
        /\ dead.sm = 0
        /\ dead.reg.clients = [sPhysicsClients1 EXCEPT ![id] = 0]
        /\ dead.reg.gui = [sPhysicsClientsGUI EXCEPT ![id] = 0]
        /\ dead.reg.num = sNumPhysicsClients - 1
        /\ dead.trace[1] = EvProbe(sPhysicsClients1[id], FALSE)
        /\ CountDisconnects(dead.trace, sPhysicsClients1[id]) = 1
        /\ \A h \in Handles \ {sPhysicsClients1[id]} :
              CountDisconnects(dead.trace, h) = 0
        /\ \A status \in SyncBodyInfoOpStatuses :
              LET out == syncBodyInfo(Reg, id, FALSE, status) IN
              /\ out.raised = "BulletNotConnectedError"
              /\ out.reg = dead.reg

\* C13 witness: a syncBodyInfo(id) call just found the probe of its slot
\* failing: the transport was disconnected, the slot is free and the call
\* raised BulletNotConnectedError.
C13_Witness ==
    /\ last.op = "syncBodyInfo" /\ last.id \in Slots
    /\ last.raised = "BulletNotConnectedError"
    /\ Len(last.trace) = 3
    /\ last.trace[1].e = "probe" /\ ~last.trace[1].ok
    /\ last.trace[3].e = "free" /\ last.trace[3].i = last.id
    /\ sPhysicsClients1[last.id] = 0 /\ sPhysicsClientsGUI[last.id] = 0

\* C14: a slot that holds a transport stops holding it only in a disconnect
\* on its id, in a call on its id whose getPhysicsClient probe fails, or in the
\* exit handler; a connect frees only the slot it stored into in the same call,
\* and a call that submitted a command leaves the registry as it was, whatever
\* the status of the command.
C14_SlotFreedOnlyByItsOwnId ==
    [][/\ \A i \in Slots :
             (sPhysicsClients1[i] # 0 /\ sPhysicsClients1'[i] # sPhysicsClients1[i])
             => \/ last'.op = "exit"
                \/ /\ last'.op = "disconnect" /\ last'.id = i
                   /\ last'.trace[1] = EvProbe(sPhysicsClients1[i], TRUE)
                \/ /\ last'.op \in ClientOps /\ last'.id = i
                   /\ last'.trace[1] = EvProbe(sPhysicsClients1[i], FALSE)
       /\ last'.op = "connect"
          => \A k \in Events(last'.trace, "free") :
                /\ sPhysicsClients1[last'.trace[k].i] = 0
                /\ \E j \in Events(last'.trace, "store") :
                      /\ j < k
                      /\ last'.trace[j].i = last'.trace[k].i
                      /\ last'.trace[j].h = last'.trace[k].h
       /\ (last'.op \in ClientOps /\ Events(last'.trace, "submit") # {})
          => Reg' = Reg]_vars

\* C14 witness: a syncBodyInfo(id) call just submitted its command on a
\* transport that broke (no status came back), raised BulletError, and the
\* slot still holds the transport.
C14_Witness ==
    /\ last.op = "syncBodyInfo" /\ last.raised = "BulletError"
    /\ last.id \in Slots
    /\ \E k \in Events(last.trace, "status") :
          /\ last.trace[k].t = CMD_INVALID_STATUS
          /\ sPhysicsClients1[last.id] = last.trace[k].h

\* A trace starts with the events of getPhysicsClient's answer g.
StartsWith(trace, g) ==
    /\ Len(trace) >= Len(g.trace)
    /\ SubSeq(trace, 1, Len(g.trace)) = g.trace

\* C15: stepSimulation, syncBodyInfo and resetSimulation start with
\* getPhysicsClient on their id, and when it returns no transport (id out of
\* range, slot free, or the probe fails) they raise BulletNotConnectedError, do
\* nothing more than getPhysicsClient did and submit no command.
C15_UnresolvedIdNotConnected ==
    \A id \in ClientIds : \A probeOk \in BOOLEAN :
        LET g == getPhysicsClient(Reg, id, probeOk)
            outs ==
                {stepSimulation(Reg, id, probeOk, probe2Ok, status) :
                    probe2Ok \in BOOLEAN, status \in StepStatuses}
                \cup {syncBodyInfo(Reg, id, probeOk, status) :
                         status \in SyncBodyInfoOpStatuses}
                \cup {resetSimulation(Reg, id, probeOk, status) :
                         status \in ResetStatuses}
        IN
        \A out \in outs :
            /\ StartsWith(out.trace, g)
            /\ g.sm = 0
               => /\ out.raised = "BulletNotConnectedError"
                  /\ out.why = "NotConnected"
                  /\ out.trace = g.trace
                  /\ out.reg = g.reg
                  /\ Events(out.trace, "submit") = {}

\* C15 witness: stepSimulation was just called with an id beyond the table
\* while a connection was open, and raised BulletNotConnectedError without
\* touching a transport.
C15_Witness ==
    /\ last.op = "stepSimulation" /\ last.id = MAX_PHYSICS_CLIENTS
    /\ last.raised = "BulletNotConnectedError"
    /\ last.trace = <<>>
    /\ Occupied(sPhysicsClients1) # {}

\* C16: isConnected(id) and getConnectionInfo(id) submit no command and raise
\* nothing; they leave the slot table, the method table and the counter as they
\* were, except that when the probe made by getPhysicsClient on an occupied
\* slot id fails, that slot (and only that slot) is evicted.
C16_IntrospectionReadOnly ==
    \A id \in ClientIds : \A probeOk \in BOOLEAN, probe2Ok \in BOOLEAN :
        LET out == connectionInfo(Reg, id, probeOk, probe2Ok).out
            evicts == ~NoSlot(id) /\ ~probeOk
        IN
        /\ Events(out.trace, "submit") = {}
        /\ out.raised = "none"
        /\ ~evicts
           => /\ out.reg = Reg
              /\ \A h \in Handles : CountDisconnects(out.trace, h) = 0
        /\ evicts
           => /\ out.reg = getPhysicsClient(Reg, id, FALSE).reg
              /\ \A i \in Slots \ {id} :
                    /\ out.reg.clients[i] = sPhysicsClients1[i]
                    /\ out.reg.gui[i] = sPhysicsClientsGUI[i]
              /\ out.reg.clients[id] = 0
              /\ out.reg.num = sNumPhysicsClients - 1

\* C16 witness: getConnectionInfo(id) was just called on a stored transport
\* that answered the first probe and not the second; the slot still holds the
\* transport and its method.
C16_Witness ==
    /\ last.op = "getConnectionInfo" /\ last.why = "ProbeFailed"
    /\ last.id \in Slots
    /\ sPhysicsClients1[last.id] = last.trace[1].h
    /\ sPhysicsClientsGUI[last.id] # 0

\* C17: a connect that returns an id leaves the method it was called with in
\* the method table under that id; the entry stays as it is for as long as the
\* slot holds the same transport; getConnectionInfo(id) on a slot that holds a
\* transport answering both probes reports isConnected 1 and that entry, and
\* in every other case reports isConnected 0 and connectionMethod 0.
C17_ConnectionInfoReportsConnectMethod ==
    [][/\ (last'.op = "connect" /\ last'.result \in Slots)
          => /\ sPhysicsClientsGUI'[last'.result] = last'.method
             /\ sPhysicsClients1'[last'.result] = numOpened + 1
       /\ \A i \in Slots :
             (sPhysicsClients1[i] # 0 /\ sPhysicsClients1'[i] = sPhysicsClients1[i])
             => sPhysicsClientsGUI'[i] = sPhysicsClientsGUI[i]
       /\ last'.op = "getConnectionInfo"
          => LET live == /\ ~NoSlot(last'.id)
                         /\ \A k \in Events(last'.trace, "probe") : last'.trace[k].ok
             IN
             /\ live => /\ last'.result = 1
                        /\ last'.method = sPhysicsClientsGUI[last'.id]
                        /\ MethodHasCase(last'.method)
             /\ ~live => /\ last'.result = 0
                         /\ last'.method = 0]_vars

\* C17 witness: getConnectionInfo just reported isConnected 1 and method
\* GUI_SERVER for one id while another id holds a connection of another method.
C17_Witness ==
    /\ last.op = "getConnectionInfo" /\ last.result = 1
    /\ last.method = eCONNECT_GUI_SERVER
    /\ \E j \in Slots \ {last.id} :
          /\ sPhysicsClients1[j] # 0
          /\ sPhysicsClientsGUI[j] \notin {0, eCONNECT_GUI_SERVER}

\* C18: in a connect call the first command submitted is sync body info and
\* the only other one is sync user data, submitted after a status of type
\* CMD_SYNC_BODY_INFO_COMPLETED was received for the first; each is submitted
\* at most once and its status is received right after it; the call returns an
\* id of the table only if both completed status types were received.
C18_HandshakeOrdered ==
    last.op = "connect" =>
    LET t == last.trace
        submits == Events(t, "submit")
    IN
    /\ \A k \in submits :
          /\ t[k].t \in {"SyncBodyInfo", "SyncUserData"}
          /\ (\A j \in submits : j >= k) => t[k].t = "SyncBodyInfo"
          /\ k < Len(t) /\ t[k + 1].e = "status" /\ t[k + 1].h = t[k].h
          /\ \A j \in submits : t[j].t = t[k].t => j = k
          /\ t[k].t = "SyncUserData"
             => \E j \in 1 .. (k - 1) :
                   t[j] = EvStatus(t[k].h, CMD_SYNC_BODY_INFO_COMPLETED)
    /\ last.result \in Slots
       => \E j, k \in Events(t, "status") :
             /\ j < k
             /\ t[j].t = CMD_SYNC_BODY_INFO_COMPLETED
             /\ t[k].t = CMD_SYNC_USER_DATA_COMPLETED
             /\ t[j - 1] = EvSubmit(t[j].h, "SyncBodyInfo")
             /\ t[k - 1] = EvSubmit(t[k].h, "SyncUserData")

\* C18 witness: a connect just stopped after its first round trip, whose
\* status was not the completed one: nothing else was submitted and the call
\* returned -1.
C18_Witness ==
    /\ last.op = "connect" /\ last.result = -1
    /\ Cardinality(Events(last.trace, "submit")) = 1
    /\ \E k \in Events(last.trace, "status") :
          last.trace[k].t = CMD_SYNC_BODY_INFO_FAILED

\* C19 (as claimed): a connect enters the transport in the slot table only
\* after both handshake round trips have returned their completed status
\* types, so that the table never holds a transport that has not completed its
\* handshake, not even while connect runs.
C19_StoredOnlyAfterHandshake ==
    last.op = "connect" =>
    \A k \in Events(last.trace, "store") :
        \E i, j \in 1 .. (k - 1) :
            /\ last.trace[i] = EvStatus(last.trace[k].h, CMD_SYNC_BODY_INFO_COMPLETED)
            /\ last.trace[j] = EvStatus(last.trace[k].h, CMD_SYNC_USER_DATA_COMPLETED)

\* C19 (amended): a slot holds a new transport when a call returns only if the
\* call is a connect returning that slot's index in which the transport
\* received both completed status types; inside connect the transport is
\* entered in the table before the first command is submitted, and a connect
\* that returns no id leaves the slot it had taken free.
C19_StoredAtReturnOnlyAfterHandshake ==
    [][/\ \A i \in Slots :
             (sPhysicsClients1'[i] # 0 /\ sPhysicsClients1'[i] # sPhysicsClients1[i])
             => /\ last'.op = "connect" /\ last'.result = i
                /\ \E j, k \in Events(last'.trace, "status") :
                      /\ last'.trace[j] = EvStatus(sPhysicsClients1'[i],
                                                    CMD_SYNC_BODY_INFO_COMPLETED)
                      /\ last'.trace[k] = EvStatus(sPhysicsClients1'[i],
                                                    CMD_SYNC_USER_DATA_COMPLETED)
       /\ last'.op = "connect"
          => \A k \in Events(last'.trace, "store") :
                /\ \A j \in Events(last'.trace, "submit") : k < j
                /\ last'.result \notin Slots
                   => sPhysicsClients1'[last'.trace[k].i] = 0]_vars

\* C19 witness: a connect just returned an id; it had entered the transport in
\* the table right before submitting the first handshake command, and the slot
\* holds the transport.
C19_Witness ==
    /\ last.op = "connect" /\ last.result \in Slots
    /\ \E k \in Events(last.trace, "store") :
          /\ last.trace[k + 1] = EvSubmit(last.trace[k].h, "SyncBodyInfo")
          /\ last.trace[k].i = last.result
          /\ sPhysicsClients1[last.result] = last.trace[k].h

CountEvents(trace, e, h, n) ==
    Cardinality({k \in 1 .. n : trace[k].e = e /\ trace[k].h = h})

\* C21: at every point of a call, each transport has received as many statuses
\* as commands were submitted on it, or one less (the command being waited
\* for); when the call returns the two numbers are equal, so that every command
\* submitted got exactly one status and no status came without a command.
C21_EverySubmitOneStatus ==
    LET t == last.trace IN
    \A h \in Handles :
        /\ \A n \in 0 .. Len(t) :
              LET submitted == CountEvents(t, "submit", h, n)
                  received == CountEvents(t, "status", h, n)
              IN received <= submitted /\ submitted <= received + 1
        /\ CountEvents(t, "submit", h, Len(t)) = CountEvents(t, "status", h, Len(t))

\* C21 witness: resetSimulation just submitted its command on a transport that
\* broke: the call returned after a status of no valid type was received.
C21_Witness ==
    /\ last.op = "resetSimulation" /\ last.why = "ok"
    /\ \E k \in Events(last.trace, "submit") :
          /\ last.trace[k].t = "ResetSimulation"
          /\ last.trace[k + 1] = EvStatus(last.trace[k].h, CMD_INVALID_STATUS)

\* C22: a call on id i (disconnect, an operation that submits a command
\* whatever its status, an introspection call, or any of them evicting slot i
\* on a failed probe) leaves the handle and the method of every other slot as
\* they were.
C22_SlotsIndependent ==
    [][last'.op \in ClientOps
       => \A j \in Slots \ {last'.id} :
             /\ sPhysicsClients1'[j] = sPhysicsClients1[j]
             /\ sPhysicsClientsGUI'[j] = sPhysicsClientsGUI[j]]_vars

\* C22 witness: disconnect(i) just tore a connection down while another slot
\* holds a transport and its method.
C22_Witness ==
    /\ last.op = "disconnect" /\ last.why = "ok"
    /\ \E j \in Slots \ {last.id} :
          /\ sPhysicsClients1[j] # 0
          /\ sPhysicsClientsGUI[j] # 0

\* C23 (as claimed): in every call, a probe that answers no is followed in the
\* same call by the disconnect of the probed transport, and when the call
\* returns no slot holds that transport; this for every probe, the second one
\* of stepSimulation, isConnected and getConnectionInfo included.
C23_FailedProbeTearsDown ==
    \A k \in Events(last.trace, "probe") :
        ~last.trace[k].ok
        => /\ \E j \in Events(last.trace, "disconnect") :
                 j > k /\ last.trace[j].h = last.trace[k].h
           /\ \A i \in Slots : sPhysicsClients1[i] # last.trace[k].h

\* The methods with a case in connect's switch that are not interactive.
NonInteractiveMethods ==
    {method \in ConnectMethods :
        MethodHasCase(method) /\ method \notin {eCONNECT_GUI, eCONNECT_GUI_SERVER}}

\* C24 (as claimed): a connect with a non-interactive method, called while a
\* slot of the table is free, is not rejected (neither for exclusivity nor for
\* capacity): it goes on to construct its transport, whatever is open.
C24_NonInteractiveNeverRejected ==
    [][(/\ last'.op = "connect"
        /\ last'.method \in NonInteractiveMethods
        /\ Occupied(sPhysicsClients1) # Slots)
       => /\ last'.raised = "none"
          /\ last'.why \in {"OpenFailed", "ProbeFailed", "HandshakeFailed", "ok"}]_vars

\* C25: a connect that succeeds returns an index of the table whose slot was
\* free when it was called and below which every slot was occupied; so the
\* first connect on an empty table returns 0, and an index freed earlier is
\* returned again as soon as it is the smallest free one.
C25_SmallestFreeIndex ==
    [][(last'.op = "connect" /\ last'.why = "ok")
       => /\ last'.result \in Slots
          /\ sPhysicsClients1[last'.result] = 0
          /\ \A j \in Slots : j < last'.result => sPhysicsClients1[j] # 0
          /\ Occupied(sPhysicsClients1) = {} => last'.result = 0]_vars

\* C25 witness: a connect just returned id 0 right after disconnect(0) had torn
\* down the connection that held slot 0.
C25_Witness ==
    /\ last.op = "connect" /\ last.why = "ok" /\ last.result = 0
    /\ last.after = "ok"
    /\ sPhysicsClients1[0] = numOpened
    /\ \E h \in Handles : h < numOpened /\ disconnects[h] > 0

\* C26: a connect whose transport constructor returns no handle, or whose
\* transport does not answer the first probe, returns -1 without raising,
\* submits no command and leaves the slot table, the method table and the
\* counter as they were; in the second case it disconnects the transport it
\* had constructed, once, and in the first it touches no transport.
C26_OpenOrProbeFailure ==
    [][(last'.op = "connect" /\ last'.why \in {"OpenFailed", "ProbeFailed"})
       => /\ last'.result = -1
          /\ last'.raised = "none"
          /\ Events(last'.trace, "submit") = {}
          /\ Events(last'.trace, "store") = {}
          /\ Reg' = Reg
          /\ last'.why = "OpenFailed"
             => /\ last'.trace = <<>>
                /\ numOpened' = numOpened
                /\ disconnects' = disconnects
          /\ last'.why = "ProbeFailed"
             => /\ numOpened' = numOpened + 1
                /\ last'.trace[2] = EvProbe(numOpened', FALSE)
                /\ disconnects' = [disconnects EXCEPT ![numOpened'] = 1]]_vars

\* C26 witness: a connect just constructed a transport that did not answer the
\* probe, while another connection was open: the transport is disconnected and
\* the table holds what it held.
C26_Witness ==
    /\ last.op = "connect" /\ last.why = "ProbeFailed" /\ last.result = -1
    /\ disconnects[numOpened] = 1
    /\ Occupied(sPhysicsClients1) # {}
    /\ \A i \in Slots : sPhysicsClients1[i] # numOpened

\* C27 (as claimed): in every reachable state the counter equals the number
\* of slots of the table that hold a transport.
C27_CounterEqualsOccupied ==
    sNumPhysicsClients = Cardinality(Occupied(sPhysicsClients1))

\* C28: whatever a connect call made in the current state meets, a transport
\* it constructed is, when it returns, either held by exactly one slot and not
\* disconnected, or held by no slot and disconnected once; and no connect gets
\* past the capacity test to find no free index.
C28_ConnectLeaksNoTransport ==
    \A method \in ConnectMethods : \A out \in ConnectCases(method) :
        /\ out.why # "NoFreeIndex"
        /\ \A k \in Events(out.trace, "open") :
              LET h == out.trace[k].h
                  held == {i \in Slots : out.reg.clients[i] = h}
              IN
              \/ Cardinality(held) = 1 /\ CountDisconnects(out.trace, h) = 0
              \/ held = {} /\ CountDisconnects(out.trace, h) = 1

\* C28 witness: a connect just gave up after its first handshake round trip
\* while another connection was open: its transport is in no slot and was
\* disconnected once.
C28_Witness ==
    /\ last.op = "connect" /\ last.why = "HandshakeFailed"
    /\ \E k \in Events(last.trace, "status") :
          last.trace[k].t = CMD_SYNC_BODY_INFO_FAILED
    /\ disconnects[numOpened] = 1
    /\ \A i \in Slots : sPhysicsClients1[i] # numOpened
    /\ Occupied(sPhysicsClients1) # {}

\* C29: no transport has been disconnected more than once; a transport that
\* has been disconnected is held by no slot; and in every call, a transport
\* that is probed, stored or given a command had not been disconnected before
\* the call and is not disconnected earlier in the call.
C29_DisconnectedAtMostOnce ==
    /\ \A h \in Handles :
          /\ disconnects[h] <= 1
          /\ disconnects[h] = 1 => \A i \in Slots : sPhysicsClients1[i] # h
    /\ \A k \in 1 .. Len(last.trace) :
          last.trace[k].e \in {"probe", "store", "submit", "status"}
          => /\ disconnects[last.trace[k].h]
                  = CountDisconnects(last.trace, last.trace[k].h)
             /\ \A j \in 1 .. (k - 1) :
                   last.trace[j] # EvDisconnect(last.trace[k].h)

\* C29 witness: the exit handler just disconnected the transport that was
\* still stored, after another transport had been disconnected by an earlier
\* call; each was disconnected once.
C29_Witness ==
    /\ exited /\ last.op = "exit"
    /\ Cardinality(Events(last.trace, "disconnect")) = 1
    /\ numOpened = MaxHandles
    /\ \A h \in Handles : disconnects[h] = 1

\* C30 (as claimed): in every reachable state, the exit handler's included,
\* the method table entry of a slot is non-zero exactly when the slot holds a
\* transport.
C30_MethodTableConsistent ==
    \A i \in Slots : (sPhysicsClientsGUI[i] # 0) <=> (sPhysicsClients1[i] # 0)

\* C31 (as claimed): once the exit handler has run, every slot of the table is
\* free, every transport it found stored was disconnected by it and has been
\* disconnected exactly once, and the counter is 0.
C31_ExitDisconnectsAll ==
    last.op = "exit"
    => /\ Occupied(sPhysicsClients1) = {}
       /\ \A k \in Events(last.trace, "free") :
             /\ CountDisconnects(last.trace, last.trace[k].h) = 1
             /\ disconnects[last.trace[k].h] = 1
       /\ sNumPhysicsClients = 0

\* ======================================================= example browser
\* deleteDemo: the current example, when there is one, is exited and deleted.
deleteDemo(cur, live) ==
    IF cur # 0 THEN [cur |-> 0, live |-> live \ {cur}]
    ELSE [cur |-> cur, live |-> live]

\* What a create function returns: the next new instance, or the null pointer
\* when it fails (and it fails once MaxExamples instances were created).
NewExample(n, succeeds) == IF succeeds /\ n < MaxExamples THEN n + 1 ELSE 0

\* The loop of openFileDemo over the importers from i on: every importer whose
\* extension occurs in the file name has its create function called and the
\* result assigned to sCurrentDemo.  d holds cur, live, n (instances created
\* so far) and created (instances created by this call).
RECURSIVE OpenFileLoop(_, _, _, _)
OpenFileLoop(i, d, matches, succeed) ==
    IF i > NumImporters THEN d
    ELSE IF i \notin matches THEN OpenFileLoop(i + 1, d, matches, succeed)
    ELSE LET e == NewExample(d.n, i \in succeed) IN
         OpenFileLoop(i + 1,
                      [cur |-> e,
                       live |-> IF e # 0 THEN d.live \cup {e} ELSE d.live,
                       n |-> IF e # 0 THEN d.n + 1 ELSE d.n,
                       created |-> IF e # 0 THEN d.created + 1 ELSE d.created],
                      matches, succeed)

\* MyKeyboardCallback, for the keys that pause and single-step ('i', 'o') and
\* any other key.
KeyboardKeys == {"i", "o", "x"}

MyKeyboardCallback ==
    /\ ~crashed
    /\ \E key \in KeyboardKeys, isPressed \in BOOLEAN :
          /\ pauseSimulation' =
                IF gEnableDefaultKeyboardShortcuts /\ key = "i" /\ isPressed
                THEN ~pauseSimulation ELSE pauseSimulation
          /\ singleStepSimulation' =
                IF gEnableDefaultKeyboardShortcuts /\ key = "o" /\ isPressed
                THEN TRUE ELSE singleStepSimulation
          /\ lastB' = BrowserCall("keyboard", key, "", isPressed, -1, FALSE, 0, 0, -1)
    /\ UNCHANGED <<gEnableRenderLoop, gEnableDefaultKeyboardShortcuts, sCurrentDemo,
                   sCurrentDemoIndex, liveExamples, numExamples, crashed>>
    /\ UNCHANGED <<vars, cvars>>

\* OpenGLExampleBrowserVisualizerFlagCallback, for the flags that touch the
\* variables above and any other flag.
VisualizerFlags ==
    {"COV_ENABLE_RENDERING", "COV_ENABLE_SINGLE_STEP_RENDERING",
     "COV_ENABLE_KEYBOARD_SHORTCUTS", "COV_ENABLE_SHADOWS"}

\* The flag callback in which COV_ENABLE_SINGLE_STEP_RENDERING requests the
\* single step but leaves the render loop as it is.
VisualizerFlagCallbackKeepsRenderLoop ==
    /\ ~crashed
    /\ \E flag \in VisualizerFlags, enable \in BOOLEAN :
          /\ gEnableRenderLoop' =
                IF flag = "COV_ENABLE_RENDERING" THEN enable ELSE gEnableRenderLoop
          /\ singleStepSimulation' =
                IF flag = "COV_ENABLE_SINGLE_STEP_RENDERING" THEN enable
                ELSE singleStepSimulation
          /\ gEnableDefaultKeyboardShortcuts' =
                IF flag = "COV_ENABLE_KEYBOARD_SHORTCUTS" THEN enable
                ELSE gEnableDefaultKeyboardShortcuts
          /\ lastB' = BrowserCall("visualizerFlag", "", flag, enable, -1, FALSE, 0, 0, -1)
    /\ UNCHANGED <<pauseSimulation, sCurrentDemo, sCurrentDemoIndex, liveExamples,
                   numExamples, crashed>>
    /\ UNCHANGED <<vars, cvars>>

VisualizerFlagCallback ==
    /\ ~crashed
    /\ \E flag \in VisualizerFlags, enable \in BOOLEAN :
          /\ gEnableRenderLoop' =
                IF flag = "COV_ENABLE_SINGLE_STEP_RENDERING" THEN ~enable
                ELSE IF flag = "COV_ENABLE_RENDERING" THEN enable
                ELSE gEnableRenderLoop
          /\ singleStepSimulation' =
                IF flag = "COV_ENABLE_SINGLE_STEP_RENDERING" THEN enable
                ELSE singleStepSimulation
          /\ gEnableDefaultKeyboardShortcuts' =
                IF flag = "COV_ENABLE_KEYBOARD_SHORTCUTS" THEN enable
                ELSE gEnableDefaultKeyboardShortcuts
          /\ lastB' = BrowserCall("visualizerFlag", "", flag, enable, -1, FALSE, 0, 0, -1)
    /\ UNCHANGED <<pauseSimulation, sCurrentDemo, sCurrentDemoIndex, liveExamples,
                   numExamples, crashed>>
    /\ UNCHANGED <<vars, cvars>>

\* update without the assignment that clears the single-step request.
UpdateKeepsRequest ==
    /\ ~crashed
    /\ IF ~gEnableRenderLoop /\ ~singleStepSimulation
       THEN /\ crashed' \in (IF sCurrentDemo = 0 THEN BOOLEAN ELSE {FALSE})
            /\ lastB' = BrowserCall("update", "", "", FALSE, -1, FALSE, 0, 0, -1)
       ELSE /\ lastB' = BrowserCall("update", "", "", FALSE, -1, TRUE,
                                    IF sCurrentDemo # 0
                                       /\ (~pauseSimulation \/ singleStepSimulation)
                                    THEN 1 ELSE 0,
                                    0, -1)
            /\ UNCHANGED crashed
    /\ UNCHANGED <<pauseSimulation, singleStepSimulation, gEnableRenderLoop,
                   gEnableDefaultKeyboardShortcuts, sCurrentDemo, sCurrentDemoIndex,
                   liveExamples, numExamples>>
    /\ UNCHANGED <<vars, cvars>>

\* OpenGLExampleBrowser::update.  With the render loop disabled and no single
\* step requested it calls sCurrentDemo->updateGraphics() and returns; that
\* call is made without a null test, so with no current example the browser
\* crashes or, the call doing no harm, goes on.  Otherwise it runs the full
\* loop, in which the example is stepped, and clears the single-step request.
Update ==
    /\ ~crashed
    /\ IF ~gEnableRenderLoop /\ ~singleStepSimulation
       THEN /\ crashed' \in (IF sCurrentDemo = 0 THEN BOOLEAN ELSE {FALSE})
            /\ lastB' = BrowserCall("update", "", "", FALSE, -1, FALSE, 0, 0, -1)
            /\ UNCHANGED singleStepSimulation
       ELSE /\ lastB' = BrowserCall("update", "", "", FALSE, -1, TRUE,
                                    IF sCurrentDemo # 0
                                       /\ (~pauseSimulation \/ singleStepSimulation)
                                    THEN 1 ELSE 0,
                                    0, -1)
            /\ singleStepSimulation' = FALSE
            /\ UNCHANGED crashed
    /\ UNCHANGED <<pauseSimulation, gEnableRenderLoop, gEnableDefaultKeyboardShortcuts,
                   sCurrentDemo, sCurrentDemoIndex, liveExamples, numExamples>>
    /\ UNCHANGED <<vars, cvars>>

\* selectDemo.  The index is recorded as given; an index above the number of
\* registered examples is replaced by 0, the current example is deleted, and
\* the create function of the entry, when it has one, is called.  An index
\* outside the registered examples that is not replaced (negative, or equal to
\* their number) reads past the entries: no function is found, or the browser
\* crashes.
SelectDemoIndexes == -1 .. (NumDemos + 1)

SelectDemo ==
    /\ ~crashed
    /\ \E demoIndex \in SelectDemoIndexes, hasFunc \in BOOLEAN, succeeds \in BOOLEAN :
          LET index == IF demoIndex > NumDemos THEN 0 ELSE demoIndex
              deleted == deleteDemo(sCurrentDemo, liveExamples)
              func == hasFunc
              e == IF func THEN NewExample(numExamples, succeeds) ELSE 0
          IN
          /\ sCurrentDemoIndex' = demoIndex
          /\ IF index \notin DemoIndexes /\ func
             THEN /\ crashed' = TRUE
                  /\ sCurrentDemo' = deleted.cur
                  /\ liveExamples' = deleted.live
                  /\ numExamples' = numExamples
                  /\ lastB' = BrowserCall("selectDemo", "", "", FALSE, demoIndex,
                                          FALSE, 0, 0, -1)
             ELSE /\ crashed' = FALSE
                  /\ sCurrentDemo' = e
                  /\ liveExamples' = IF e # 0 THEN deleted.live \cup {e}
                                     ELSE deleted.live
                  /\ numExamples' = IF e # 0 THEN numExamples + 1 ELSE numExamples
                  /\ lastB' = BrowserCall("selectDemo", "", "", FALSE, demoIndex,
                                          FALSE, 0, IF e # 0 THEN 1 ELSE 0,
                                          IF func THEN index ELSE -1)
    /\ UNCHANGED <<pauseSimulation, singleStepSimulation, gEnableRenderLoop,
                   gEnableDefaultKeyboardShortcuts>>
    /\ UNCHANGED <<vars, cvars>>

\* openFileDemo: matches are the importers whose extension occurs in the file
\* name, succeed those whose create function returns an instance.
OpenFileDemo ==
    /\ ~crashed
    /\ \E matches \in SUBSET Importers :
          \E d \in {OpenFileLoop(1, [cur |-> deleteDemo(sCurrentDemo, liveExamples).cur,
                                      live |-> deleteDemo(sCurrentDemo, liveExamples).live,
                                      n |-> numExamples, created |-> 0],
                                  matches, succeed) :
                        succeed \in SUBSET matches} :
             /\ sCurrentDemo' = d.cur
             /\ liveExamples' = d.live
             /\ numExamples' = d.n
             /\ lastB' = BrowserCall("openFileDemo", "", "", FALSE,
                                     Cardinality(matches), FALSE, 0, d.created, -1)
    /\ UNCHANGED <<pauseSimulation, singleStepSimulation, gEnableRenderLoop,
                   gEnableDefaultKeyboardShortcuts, sCurrentDemoIndex, crashed>>
    /\ UNCHANGED <<vars, cvars>>

BrowserNext ==
    \/ MyKeyboardCallback
    \/ VisualizerFlagCallback
    \/ Update
    \/ SelectDemo
    \/ OpenFileDemo

BrowserSpec == Init /\ [][BrowserNext]_bvars

\* ------------------------------------------------------- browser claims
\* Every step that changes a browser variable is one call, and lastB' is its
\* record: a step with lastB'.op = "update" is an update call, made in the
\* unprimed state.

\* C32 (as claimed): an update steps the current example exactly when the
\* simulation is not paused or a single step is requested; a full update
\* clears the request; an update steps at most once, and not at all when
\* paused with no request.
C32_UpdateStepsUnlessPaused ==
    [][lastB'.op = "update"
       => /\ lastB'.steps = 1
             <=> (sCurrentDemo # 0 /\ (~pauseSimulation \/ singleStepSimulation))
          /\ lastB'.full => ~singleStepSimulation'
          /\ lastB'.steps <= 1
          /\ (pauseSimulation /\ ~singleStepSimulation) => lastB'.steps = 0]_bvars

\* C32 (amended): an update runs the full loop exactly when the render loop is
\* enabled or a single step is requested; a full update steps the current
\* example exactly when the simulation is not paused or a single step is
\* requested, and clears the request; an update that returns early steps
\* nothing and leaves the request; an update steps at most once, and not at
\* all when paused with no request.
C32_FullUpdateStepsUnlessPaused ==
    [][lastB'.op = "update"
       => /\ lastB'.full <=> (gEnableRenderLoop \/ singleStepSimulation)
          /\ lastB'.full
             => /\ lastB'.steps = 1
                   <=> (sCurrentDemo # 0
                        /\ (~pauseSimulation \/ singleStepSimulation))
                /\ ~singleStepSimulation'
          /\ ~lastB'.full
             => /\ lastB'.steps = 0
                /\ singleStepSimulation' = singleStepSimulation
          /\ lastB'.steps <= 1
          /\ (pauseSimulation /\ ~singleStepSimulation) => lastB'.steps = 0]_bvars

\* C32 witness: an update just stepped the example once while the simulation
\* is paused, and the request that allowed it is cleared.
C32_Witness ==
    /\ lastB.op = "update" /\ lastB.full /\ lastB.steps = 1
    /\ pauseSimulation /\ ~singleStepSimulation
    /\ sCurrentDemo # 0

\* The browser renders one frame on request: the render loop is off and a
\* single step is requested (SingleStepArmed), or the request was served
\* (SingleStepIdle).
SingleStepArmed == ~gEnableRenderLoop /\ singleStepSimulation
SingleStepIdle == ~gEnableRenderLoop /\ ~singleStepSimulation

\* The step is a visualizer flag call that sets COV_ENABLE_SINGLE_STEP_RENDERING
\* or COV_ENABLE_RENDERING, to either value.
RenderFlagSet ==
    /\ lastB'.op = "visualizerFlag"
    /\ lastB'.flag \in {"COV_ENABLE_SINGLE_STEP_RENDERING", "COV_ENABLE_RENDERING"}

\* The step is a press of key 'o' with the default keyboard shortcuts enabled.
SingleStepKey ==
    /\ lastB'.op = "keyboard" /\ lastB'.key = "o" /\ lastB'.enable
    /\ gEnableDefaultKeyboardShortcuts

\* What the flag calls and update do about single-step rendering: enabling
\* COV_ENABLE_SINGLE_STEP_RENDERING switches the render loop off and requests
\* one step, disabling it switches the render loop on and withdraws the
\* request; an update runs the full loop unless the render loop is off with
\* no request, serves the request and leaves the render loop as it is; a
\* pending request stays until an update or a flag call.
SingleStepRenderingSteps ==
    /\ (lastB'.op = "visualizerFlag"
        /\ lastB'.flag = "COV_ENABLE_SINGLE_STEP_RENDERING" /\ lastB'.enable)
       => SingleStepArmed'
    /\ (lastB'.op = "visualizerFlag"
        /\ lastB'.flag = "COV_ENABLE_SINGLE_STEP_RENDERING" /\ ~lastB'.enable)
       => (gEnableRenderLoop' /\ ~singleStepSimulation')
    /\ lastB'.op = "update"
       => /\ lastB'.full <=> ~SingleStepIdle
          /\ gEnableRenderLoop' = gEnableRenderLoop
          /\ ~singleStepSimulation'
    /\ (SingleStepArmed /\ ~RenderFlagSet /\ lastB'.op # "update") => SingleStepArmed'
    /\ (gEnableRenderLoop /\ ~RenderFlagSet) => gEnableRenderLoop'

\* C33 (as claimed): after COV_ENABLE_SINGLE_STEP_RENDERING is enabled the next
\* update runs the full loop and every later update skips it, until that flag
\* or COV_ENABLE_RENDERING is set again; disabling the flag restores the
\* render loop, and then every update runs the full loop.
C33_SingleStepRenderingOneFullUpdate ==
    [][/\ SingleStepRenderingSteps
       /\ (SingleStepIdle /\ ~RenderFlagSet) => SingleStepIdle']_bvars

\* C33 (amended): as claimed, except that a press of key 'o' with the keyboard
\* shortcuts enabled also ends the skipping: it requests a single step, so
\* that again exactly the next update runs the full loop.
C33_SingleStepRenderingOneFullUpdatePerRequest ==
    [][/\ SingleStepRenderingSteps
       /\ (SingleStepIdle /\ ~RenderFlagSet /\ ~SingleStepKey) => SingleStepIdle'
       /\ (SingleStepIdle /\ SingleStepKey) => SingleStepArmed']_bvars

\* C33 witness: the flag was enabled, one update ran the full loop, and the
\* update just made skipped it.
C33_Witness ==
    /\ lastB.op = "update" /\ ~lastB.full
    /\ SingleStepIdle
    /\ ~crashed

\* ================================================================ QuickCanvas
\* createCanvas: below MAX_GRAPH_WINDOWS open canvases the slot is the counter
\* itself; the counter is incremented, a new texture and a new graph window
\* are stored in the slot and the slot is returned.  Otherwise -1 is returned.
CreateCanvas ==
    /\ IF m_curNumGraphWindows < MAX_GRAPH_WINDOWS
       THEN LET slot == m_curNumGraphWindows
                c == numCanvases + 1
            IN
            /\ numCanvases < MaxCanvases
            /\ m_curNumGraphWindows' = m_curNumGraphWindows + 1
            /\ m_gt' = [m_gt EXCEPT ![slot] = c]
            /\ m_gw' = [m_gw EXCEPT ![slot] = c]
            /\ numCanvases' = c
            /\ liveCanvases' = liveCanvases \cup {c}
            /\ lastC' = CanvasCall("createCanvas", -1, slot,
                                   m_gw[slot] # 0 \/ m_gt[slot] # 0)
       ELSE /\ lastC' = CanvasCall("createCanvas", -1, -1, FALSE)
            /\ UNCHANGED <<m_gw, m_gt, m_curNumGraphWindows, numCanvases, liveCanvases>>
    /\ UNCHANGED <<vars, bvars>>

\* destroyCanvas, called with the id of a slot that holds a canvas: texture and
\* graph window are deleted, the slot is emptied, the counter is decremented.
DestroyCanvas ==
    /\ \E canvasId \in CanvasSlots :
          /\ m_gw[canvasId] # 0
          /\ liveCanvases' = liveCanvases \ {m_gt[canvasId], m_gw[canvasId]}
          /\ m_gt' = [m_gt EXCEPT ![canvasId] = 0]
          /\ m_gw' = [m_gw EXCEPT ![canvasId] = 0]
          /\ m_curNumGraphWindows' = m_curNumGraphWindows - 1
          /\ lastC' = CanvasCall("destroyCanvas", canvasId, -1, TRUE)
    /\ UNCHANGED numCanvases
    /\ UNCHANGED <<vars, bvars>>

CanvasNext ==
    \/ CreateCanvas
    \/ DestroyCanvas

CanvasSpec == Init /\ [][CanvasNext]_cvars

\* The slots that hold a graph window or a texture.
NonEmptySlots == {i \in CanvasSlots : m_gw[i] # 0 \/ m_gt[i] # 0}

\* C34: the slot a createCanvas call returns held neither a graph window nor a
\* texture when the call was made.
C34_CreateReturnsEmptySlot ==
    (lastC.op = "createCanvas" /\ lastC.result >= 0) => ~lastC.before

\* C35: the counter lies in 0 .. MAX_GRAPH_WINDOWS and equals the number of
\* non-empty slots, and createCanvas returns -1 only with MAX_GRAPH_WINDOWS
\* canvases open.
C35_CounterEqualsNonEmptySlots ==
    /\ m_curNumGraphWindows \in 0 .. MAX_GRAPH_WINDOWS
    /\ m_curNumGraphWindows = Cardinality(NonEmptySlots)
    /\ (lastC.op = "createCanvas" /\ lastC.result = -1)
       => m_curNumGraphWindows = MAX_GRAPH_WINDOWS

\* ------------------------------------------- browser claims, continued
\* C36: at most one example is alive, and it is the current one; a selectDemo
\* or openFileDemo call creates at most one example instance.
C36_AtMostOneLiveExample ==
    /\ liveExamples \subseteq {sCurrentDemo}
    /\ lastB.op \in {"selectDemo", "openFileDemo"} => lastB.created <= 1

\* C37: after selectDemo, sCurrentDemoIndex is a registered example index, and
\* it is the index of the example whose create function the call used.
C37_CurrentIndexIsUsedIndex ==
    lastB.op = "selectDemo"
    => /\ sCurrentDemoIndex \in DemoIndexes
       /\ lastB.used # -1 => lastB.used = sCurrentDemoIndex

====
